---- MODULE Spec2Model ----
(***************************************************************************)
(* State-machine model of the R_75 momentum sniper (src/bot.py):           *)
(*   - QuantEngine.analyze, the indicator engine, as operators on a        *)
(*     sequence of closes;                                                 *)
(*   - main_loop, the scan loop holding the ghost order, as one action     *)
(*     per await point;                                                    *)
(*   - execute_trade, the four venue calls and the failure handler.        *)
(*                                                                         *)
(* Floats are modelled as fixed-point numbers: a value is a record         *)
(* [k, v] with k = "num" (the number v / Scale), "nan" or "inf".           *)
(* Divisions round down.  Comparisons with NaN are false, as in Python.    *)
(***************************************************************************)
EXTENDS Integers, Sequences, FiniteSets, TLC

\* ------------------------------------------------------------------ floats
\* resolution of the fixed-point numbers standing for Python floats
Scale == 1000

Num(v) == [k |-> "num", v |-> v]
NaN == [k |-> "nan", v |-> 0]
Inf == [k |-> "inf", v |-> 0]
\* an integer literal of the source as a float
Lit(n) == Num(n * Scale)

IsNum(a) == a.k = "num"
IsNaN(a) == a.k = "nan"

FAdd(a, b) ==
    IF IsNaN(a) \/ IsNaN(b) THEN NaN
    ELSE IF a.k = "inf" \/ b.k = "inf" THEN Inf
    ELSE Num(a.v + b.v)

FNeg(a) == IF IsNum(a) THEN Num(0 - a.v) ELSE a

FSub(a, b) ==
    IF IsNaN(a) \/ IsNaN(b) THEN NaN
    ELSE IF a.k = "inf" \/ b.k = "inf" THEN Inf
    ELSE Num(a.v - b.v)

FAbs(a) == IF IsNum(a) /\ a.v < 0 THEN Num(0 - a.v) ELSE a

FMul(a, b) ==
    IF IsNaN(a) \/ IsNaN(b) THEN NaN
    ELSE IF a.k = "inf" \/ b.k = "inf" THEN Inf
    ELSE Num((a.v * b.v) \div Scale)

\* float division: x/0 is inf, 0/0 is NaN (numpy semantics, no exception)
FDiv(a, b) ==
    IF IsNaN(a) \/ IsNaN(b) THEN NaN
    ELSE IF a.k = "inf" THEN (IF b.k = "inf" THEN NaN ELSE Inf)
    ELSE IF b.k = "inf" THEN Num(0)
    ELSE IF b.v = 0 THEN (IF a.v = 0 THEN NaN ELSE Inf)
    ELSE Num((a.v * Scale) \div b.v)

\* Python comparisons: any comparison with NaN is False
FLt(a, b) ==
    /\ ~IsNaN(a) /\ ~IsNaN(b)
    /\ a.k # "inf"
    /\ (b.k = "inf" \/ a.v < b.v)
FGt(a, b) == FLt(b, a)
FGe(a, b) ==
    /\ ~IsNaN(a) /\ ~IsNaN(b)
    /\ (a.k = "inf" \/ (b.k # "inf" /\ a.v >= b.v))
FLe(a, b) == FGe(b, a)
FNe(a, b) == IsNaN(a) \/ IsNaN(b) \/ a # b

RECURSIVE ISqrtIn(_, _, _)
ISqrtIn(x, lo, hi) ==
    IF lo >= hi THEN lo
    ELSE LET mid == (lo + hi + 1) \div 2
         IN IF mid * mid <= x THEN ISqrtIn(x, mid, hi) ELSE ISqrtIn(x, lo, mid - 1)
\* floor of the square root; the argument stays below 46340^2
ISqrt(x) == ISqrtIn(x, 0, 46340)

\* ------------------------------------------------------- pandas primitives
\* windows of the rolling indicators (the literals of analyze)
ATR_WINDOW == 14
RSI_WINDOW == 14
VOL_WINDOW == 20
LOOKBACK == 100
ER_LENGTH == 10

\* Series.diff(): the first element is NaN
diff(s) == [i \in 1..Len(s) |-> IF i = 1 THEN NaN ELSE FSub(s[i], s[i - 1])]

\* Series.abs()
sabs(s) == [i \in 1..Len(s) |-> FAbs(s[i])]

RECURSIVE SumV(_, _, _)
SumV(s, lo, hi) == IF lo > hi THEN 0 ELSE s[lo].v + SumV(s, lo + 1, hi)

RECURSIVE SumSq(_, _, _, _)
SumSq(s, m, lo, hi) ==
    IF lo > hi THEN 0
    ELSE (s[lo].v - m) * (s[lo].v - m) + SumSq(s, m, lo + 1, hi)

\* a rolling window ending at i holds w observations, none of them NaN
\* (min_periods defaults to the window length)
FullWindow(s, w, i) ==
    /\ i >= w /\ i <= Len(s)
    /\ \A j \in (i - w + 1)..i : IsNum(s[j])

\* Series.rolling(w).sum() at position i
rolling_sum(s, w, i) ==
    IF FullWindow(s, w, i) THEN Num(SumV(s, i - w + 1, i)) ELSE NaN

\* Series.rolling(w).mean() at position i
rolling_mean(s, w, i) ==
    IF FullWindow(s, w, i) THEN Num(SumV(s, i - w + 1, i) \div w) ELSE NaN

\* Series.rolling(w).std() at position i: sample standard deviation (ddof=1)
rolling_std(s, w, i) ==
    IF FullWindow(s, w, i)
    THEN LET m == SumV(s, i - w + 1, i) \div w
         IN Num(ISqrt(SumSq(s, m, i - w + 1, i) \div (w - 1)))
    ELSE NaN

\* Series.pct_change().dropna(): the leading NaN is dropped
pct_change_dropna(s) ==
    [i \in 1..(IF Len(s) = 0 THEN 0 ELSE Len(s) - 1) |->
        FDiv(FSub(s[i + 1], s[i]), s[i])]

\* delta.where(delta > 0, 0): NaN > 0 is False, so NaN becomes 0
where_pos(s) == [i \in 1..Len(s) |-> IF FGt(s[i], Num(0)) THEN s[i] ELSE Num(0)]
\* -delta.where(delta < 0, 0)
neg_where_neg(s) ==
    [i \in 1..Len(s) |-> IF FLt(s[i], Num(0)) THEN FNeg(s[i]) ELSE Num(0)]

\* ------------------------------------------------------------ QuantEngine
\* the result of analyze: the tuple (z, er, atr, current_rsi, price), or the
\* IndexError of an .iloc on a series that is too short
Raised ==
    [raised |-> TRUE, z |-> NaN, er |-> NaN, atr |-> NaN, rsi |-> NaN, price |-> NaN]

\* mutant of line 57: the bar-to-bar move without .abs()
analyze_atr_signed(close) ==
    rolling_mean(diff(close), ATR_WINDOW, Len(close))

analyze_atr(close) ==
    LET tr == sabs(diff(close))
    IN rolling_mean(tr, ATR_WINDOW, Len(close))

analyze_rsi(close) ==
    LET delta == diff(close)
        n == Len(close)
        gain == rolling_mean(where_pos(delta), RSI_WINDOW, n)
        loss == rolling_mean(neg_where_neg(delta), RSI_WINDOW, n)
        rs == FDiv(gain, loss)
    IN FSub(Lit(100), FDiv(Lit(100), FAdd(Lit(1), rs)))

\* line 63 at the last bar: the average loss the RSI divides by
analyze_loss(close) ==
    rolling_mean(neg_where_neg(diff(close)), RSI_WINDOW, Len(close))

analyze_z(close) ==
    LET rets == pct_change_dropna(close)
        m == Len(rets)
        rol_std == [i \in 1..m |-> rolling_std(rets, VOL_WINDOW, i)]
        mean_vol == rolling_mean(rol_std, LOOKBACK, m)
        std_vol == rolling_std(rol_std, LOOKBACK, m)
    IN IF FNe(std_vol, Num(0))
       THEN FDiv(FSub(rol_std[m], mean_vol), std_vol)
       ELSE Num(0)

analyze_er(close) ==
    LET n == Len(close)
        net == FAbs(FSub(close[n], close[n - (ER_LENGTH - 1)]))
        path == rolling_sum(sabs(diff(close)), ER_LENGTH, n)
    IN IF FGt(path, Num(0)) THEN FDiv(net, path) ELSE Num(0)

analyze(close) ==
    IF Len(close) = 0 THEN Raised            \* line 58: .iloc[-1] of an empty series
    ELSE IF Len(close) = 1 THEN Raised       \* line 71: rets is empty
    ELSE IF Len(close) < ER_LENGTH THEN Raised    \* line 77: price.iloc[-10]
    ELSE [raised |-> FALSE,
          z |-> analyze_z(close),
          er |-> analyze_er(close),
          atr |-> analyze_atr(close),
          rsi |-> analyze_rsi(close),
          price |-> close[Len(close)]]

\* ---------------------------------------------------------- configuration
\* src/bot.py lines 13-24
RISK_STAKE == Lit(10)
Z_TRIGGER == Num(0 - 2 * Scale)
ER_FILTER == Num((4 * Scale) \div 10)
RSI_BUY_MIN == Lit(55)
RSI_SELL_MAX == Lit(45)
SL_ATR_MULT == Lit(3)
TP_ATR_MULT == Lit(9)
\* the 0.5 of the breakout levels
HALF == Num(Scale \div 2)
\* the expiry window of a ghost order, in seconds
GHOST_EXPIRY == 900
\* asyncio.sleep(2)
SCAN_INTERVAL == 2

\* round(x, 2)
round2(a) ==
    IF IsNum(a)
    THEN Num(((a.v * 100 + (Scale \div 2)) \div Scale) * (Scale \div 100))
    ELSE a

\* ------------------------------------------------------------------- feed
\* longest candle series the feed returns in the model
MaxLen == 130
\* number of scan cycles a behaviour runs
MaxCycles == 4

\* a candle series of n closes: a zigzag of amplitude amp around base,
\* followed by a run of q closes moving by step per bar
Series(n, base, amp, q, step) ==
    [i \in 1..n |->
        Lit(IF i <= n - q THEN base + amp * (i % 2) ELSE base + step * (i - (n - q)))]

\* the candle series ticks_history can answer with: <<n, base, amp, q, step>>
Feed ==
    << <<0, 100, 10, 0, 0>>,             \* no candle at all
       <<9, 100, 10, 0, 0>>,             \* fewer than 10 closes
       <<10, 100, 10, 0, 0>>,            \* fewer than 14 closes
       <<14, 100, 10, 0, 0>>,            \* RSI window full, ATR window not
       <<119, 100, 10, 0, 0>>,           \* z-score lookback not full
       <<MaxLen, 100, 10, 0, 0>>,        \* choppy market, low price
       <<MaxLen, 113, 10, 0, 0>>,        \* choppy market, high price
       <<MaxLen, 100, 0, 0, 0>>,         \* flat market
       <<MaxLen, 100, 10, 10, 1>>,       \* quiet up-trend after chop
       <<MaxLen, 100, 10, 12, 1>>,       \* the same up-trend two bars later
       <<MaxLen, 100, 10, 14, 1>>,       \* 14 rising bars: no losing bar
       <<MaxLen, 100, 10, 10, -1>>,      \* quiet down-trend after chop
       <<MaxLen, 100, 10, 8, 1>>,        \* quiet but not yet efficient
       <<MaxLen, 100, 8, 8, 3>>,         \* quiet, efficiency exactly 0.4
       <<MaxLen, 100, 10, 36, 1>>,       \* efficient, z exactly at -2.0
       <<MaxLen, 100, 10, 38, 1>> >>     \* efficient, no longer quiet

Closes(k) == Series(Feed[k][1], Feed[k][2], Feed[k][3], Feed[k][4], Feed[k][5])

\* engine = QuantEngine(closes); engine.analyze(), for each answer of the feed
Analysis == [k \in DOMAIN Feed |-> analyze(Closes(k))]

\* the average loss of line 63, for each answer of the feed
AvgLoss == [k \in DOMAIN Feed |-> analyze_loss(Closes(k))]

\* seconds the clock can advance over one asyncio.sleep(2): the two seconds
\* asked for, or most of an expiry window when the event loop is held up
\* (two sleeps then leave an order exactly 900 or 901 seconds old)
SleepTimes == {SCAN_INTERVAL, GHOST_EXPIRY - SCAN_INTERVAL, GHOST_EXPIRY - 1}

\* ------------------------------------------------------------------ state
VARIABLES
    ghost_order,   \* st.session_state.ghost_order: <<>> is None, else <<order>>
    now,           \* time.time(), in seconds
    pc,            \* the await main_loop is suspended at
    cycles,        \* iterations of the while loop started so far
    closes,        \* the candles of the latest response: an index of Feed, 0 before any
    snap,          \* z, er, atr, rsi, price of the latest analyze
    order,         \* main_loop's local `order`
    trade,         \* the arguments of the execute_trade call under way
    result,        \* what execute_trade returned in the latest cycle
    contract,      \* what that call opened at the venue, with its limit order
    event,         \* the branch the latest cycle took
    attempts,      \* execute_trade calls since the latest arming
    failed_clear,  \* the latest ghost order was cleared after a failed trade
    squeeze_held,  \* the squeeze held in every analysed cycle since that arming
    shutdown       \* the operator has asked the scan loop to shut down

vars ==
    <<ghost_order, now, pc, cycles, closes, snap, order, trade, result, contract,
      event, attempts, failed_clear, squeeze_held, shutdown>>

None == <<>>
Some(x) == <<x>>

NoSnap ==
    [raised |-> FALSE, z |-> NaN, er |-> NaN, atr |-> NaN, rsi |-> NaN, price |-> NaN]

Init ==
    /\ ghost_order = None
    /\ now = 0
    /\ pc = "fetch"
    /\ cycles = 0
    /\ closes = 0
    /\ snap = NoSnap
    /\ order = None
    /\ trade = None
    /\ result = "none"
    /\ contract = None
    /\ event = "start"
    /\ attempts = 0
    /\ failed_clear = FALSE
    /\ squeeze_held = FALSE
    /\ shutdown = FALSE

\* ------------------------------------------------------- signal evaluation
\* mutant of line 162: `or` in place of `and`
SqueezeEither(s) == FLt(s.z, Z_TRIGGER) \/ FGt(s.er, ER_FILTER)

\* line 162
SqueezeFound(s) == FLt(s.z, Z_TRIGGER) /\ FGt(s.er, ER_FILTER)

\* mutant of lines 165-166: the levels a whole ATR away from the price
NewGhostFullAtr(s, t) ==
    [buy_lvl |-> FAdd(s.price, s.atr),
     sell_lvl |-> FSub(s.price, s.atr),
     atr |-> s.atr,
     created |-> t]

\* lines 164-169
NewGhost(s, t) ==
    [buy_lvl |-> FAdd(s.price, FMul(s.atr, HALF)),
     sell_lvl |-> FSub(s.price, FMul(s.atr, HALF)),
     atr |-> s.atr,
     created |-> t]

\* line 179
Expired(o, t) == t - o.created > GHOST_EXPIRY

\* mutant of lines 188 and 197: the RSI momentum filter left out
BreakoutNoMomentum(s, o) ==
    IF FGe(s.price, o.buy_lvl) THEN "buy_confirmed"
    ELSE IF FLe(s.price, o.sell_lvl) THEN "sell_confirmed"
    ELSE "waiting"

\* lines 187-202: which branch of the trigger checks a snapshot takes
Breakout(s, o) ==
    IF FGe(s.price, o.buy_lvl)
    THEN (IF FGt(s.rsi, RSI_BUY_MIN) THEN "buy_confirmed" ELSE "buy_fakeout")
    ELSE IF FLe(s.price, o.sell_lvl)
    THEN (IF FLt(s.rsi, RSI_SELL_MAX) THEN "sell_confirmed" ELSE "sell_fakeout")
    ELSE "waiting"

\* lines 189 and 198
Reward == FMul(RISK_STAKE, FDiv(TP_ATR_MULT, SL_ATR_MULT))

\* mutant of lines 179-200: the trigger checks run before the expiry rule
DecideBreakoutFirst(g, s, t) ==
    IF g = None
    THEN (IF SqueezeFound(s) THEN "armed" ELSE "scanning")
    ELSE IF Breakout(s, g[1]) \in {"buy_confirmed", "sell_confirmed"}
    THEN Breakout(s, g[1])
    ELSE IF Expired(g[1], t) THEN "expired"
    ELSE Breakout(s, g[1])

\* mutant of line 161: the squeeze search runs whether or not a ghost exists
DecideRearm(g, s, t) ==
    IF SqueezeFound(s) THEN "armed"
    ELSE IF g = None THEN "scanning"
    ELSE IF Expired(g[1], t) THEN "expired"
    ELSE Breakout(s, g[1])

\* mutant of lines 161-172: a squeeze with the momentum already there fires
\* in the cycle that finds it
DecideArmAndFire(g, s, t) ==
    IF g = None
    THEN (IF SqueezeFound(s)
          THEN (IF FGt(s.rsi, RSI_BUY_MIN) THEN "buy_confirmed" ELSE "armed")
          ELSE "scanning")
    ELSE IF Expired(g[1], t) THEN "expired"
    ELSE Breakout(s, g[1])

\* lines 161-202: the branch a cycle takes once analyze has returned
Decide(g, s, t) ==
    IF g = None
    THEN (IF SqueezeFound(s) THEN "armed" ELSE "scanning")
    ELSE IF Expired(g[1], t) THEN "expired"
    ELSE Breakout(s, g[1])

\* mutant of lines 193 and 202: a fakeout resets the ghost order
GhostClearedOnFakeout(g, s, t, ev) ==
    CASE ev = "armed" -> Some(NewGhost(s, t))
      [] ev \in {"expired", "buy_fakeout", "sell_fakeout"} -> None
      [] OTHER -> g

\* the ghost order a cycle leaves behind when it calls no execute_trade
GhostAfter(g, s, t, ev) ==
    CASE ev = "armed" -> Some(NewGhost(s, t))
      [] ev = "expired" -> None
      [] OTHER -> g

\* where main_loop suspends next: `continue` skips the sleep (line 182)
PcAfter(ev) ==
    CASE ev \in {"buy_confirmed", "sell_confirmed"} -> "authorize"
      [] ev = "expired" -> "fetch"
      [] OTHER -> "sleep"

\* lines 190 and 199: the call execute_trade(api, direction, reward)
TradeCall(ev) ==
    CASE ev = "buy_confirmed" -> Some([direction |-> "BUY", tp_amount |-> Reward])
      [] ev = "sell_confirmed" -> Some([direction |-> "SELL", tp_amount |-> Reward])
      [] OTHER -> None

\* ---------------------------------------------------------------- main_loop
\* bookkeeping of a cycle that analysed a snapshot s and took branch ev
Observe(s, ev) ==
    /\ attempts' = (IF ev = "armed" THEN 0
                    ELSE IF ev \in {"buy_confirmed", "sell_confirmed"} THEN attempts + 1
                    ELSE attempts)
    /\ failed_clear' = (IF ev = "armed" THEN FALSE ELSE failed_clear)
    /\ squeeze_held' = (IF ev = "armed" THEN TRUE ELSE squeeze_held /\ SqueezeFound(s))

\* mutant of lines 204-205: the handler resets the ghost order
SkippedResetsGhost(ev) ==
    /\ cycles' = cycles + 1
    /\ event' = ev
    /\ pc' = "sleep"
    /\ ghost_order' = None
    /\ trade' = None /\ result' = "none" /\ contract' = None
    /\ UNCHANGED <<now, snap, order, attempts, failed_clear, squeeze_held, shutdown>>

\* a cycle that ends in the except clause of line 204, or skips the strategy
Skipped(ev) ==
    /\ cycles' = cycles + 1
    /\ event' = ev
    /\ pc' = "sleep"
    /\ trade' = None /\ result' = "none" /\ contract' = None
    /\ UNCHANGED <<ghost_order, now, snap, order, attempts, failed_clear, squeeze_held,
                   shutdown>>

\* lines 144-146 and 204-207: ticks_history raises, the except clause prints
FetchRaises ==
    /\ pc = "fetch" /\ cycles < MaxCycles
    /\ Skipped("feed_error")
    /\ UNCHANGED closes

\* line 147: the response holds no 'candles'
FetchNoCandles ==
    /\ pc = "fetch" /\ cycles < MaxCycles
    /\ Skipped("no_candles")
    /\ UNCHANGED closes

\* lines 148-150 and 204-205: analyze raises on the candles received
FetchAnalyzeRaises(k) ==
    /\ pc = "fetch" /\ cycles < MaxCycles
    /\ Analysis[k].raised
    /\ closes' = k
    /\ Skipped("analysis_error")

\* lines 146-202: candles received and analysed, then the strategy runs up
\* to the next await (execute_trade's first call, the sleep, or the next fetch)
FetchCandles(k) ==
    /\ pc = "fetch" /\ cycles < MaxCycles
    /\ ~Analysis[k].raised
    /\ cycles' = cycles + 1
    /\ closes' = k
    /\ snap' = Analysis[k]
    /\ LET ev == Decide(ghost_order, snap', now)
       IN /\ event' = ev
          /\ ghost_order' = GhostAfter(ghost_order, snap', now, ev)
          /\ order' = (IF ghost_order = None THEN order ELSE ghost_order)
          /\ pc' = PcAfter(ev)
          /\ trade' = TradeCall(ev)
          /\ Observe(snap', ev)
    /\ result' = "none" /\ contract' = None
    /\ UNCHANGED <<now, shutdown>>

\* line 207
Sleep(d) ==
    /\ pc = "sleep"
    /\ pc' = "fetch"
    /\ now' = now + d
    /\ UNCHANGED <<ghost_order, cycles, closes, snap, order, trade, result, contract,
                   event, attempts, failed_clear, squeeze_held, shutdown>>

\* ------------------------------------------------------------ execute_trade
\* mutant of lines 191 and 200: the reset only after a successful trade
GhostKeptOnFailure(g, r) == IF r THEN None ELSE g

\* the ghost order once execute_trade has returned r (lines 191 and 200)
GhostAfterTrade(g, r) == None

\* execute_trade returns r; main_loop resets the ghost order and goes to sleep
Return(r) ==
    /\ result' = (IF r THEN "True" ELSE "False")
    /\ ghost_order' = GhostAfterTrade(ghost_order, r)
    /\ failed_clear' = ~r
    /\ trade' = None
    /\ pc' = "sleep"

\* a venue call that returns normally: execute_trade goes on to the next call
Continue(next) ==
    /\ pc' = next
    /\ UNCHANGED <<ghost_order, result, failed_clear, trade>>

\* line 88; a failure runs lines 120-123
Authorize(ok) ==
    /\ pc = "authorize"
    /\ IF ok THEN Continue("proposal") ELSE Return(FALSE)
    /\ UNCHANGED <<now, cycles, closes, snap, order, contract, event, attempts,
                   squeeze_held, shutdown>>

\* lines 91-100
Proposal(ok) ==
    /\ pc = "proposal"
    /\ IF ok THEN Continue("buy") ELSE Return(FALSE)
    /\ UNCHANGED <<now, cycles, closes, snap, order, contract, event, attempts,
                   squeeze_held, shutdown>>

\* lines 103-104: the venue opens the contract before api.buy returns
Buy(ok) ==
    /\ pc = "buy"
    /\ IF ok
       THEN contract' = Some([limit_order |-> None]) /\ Continue("update")
       ELSE UNCHANGED contract /\ Return(FALSE)
    /\ UNCHANGED <<now, cycles, closes, snap, order, event, attempts, squeeze_held,
                   shutdown>>

\* lines 107-118
Update(ok) ==
    /\ pc = "update"
    /\ IF ok
       THEN /\ contract' =
                Some([limit_order |-> Some([take_profit |-> round2(trade[1].tp_amount)])])
            /\ Return(TRUE)
       ELSE UNCHANGED contract /\ Return(FALSE)
    /\ UNCHANGED <<now, cycles, closes, snap, order, event, attempts, squeeze_held,
                   shutdown>>

Next ==
    \/ FetchRaises
    \/ FetchNoCandles
    \/ \E k \in DOMAIN Feed : FetchAnalyzeRaises(k)
    \/ \E k \in DOMAIN Feed : FetchCandles(k)
    \/ \E d \in SleepTimes : Sleep(d)
    \/ \E ok \in BOOLEAN : Authorize(ok)
    \/ \E ok \in BOOLEAN : Proposal(ok)
    \/ \E ok \in BOOLEAN : Buy(ok)
    \/ \E ok \in BOOLEAN : Update(ok)

Spec == Init /\ [][Next]_vars

TypeOK ==
    /\ Len(ghost_order) <= 1
    /\ pc \in {"fetch", "authorize", "proposal", "buy", "update", "sleep"}
    /\ cycles \in 0..MaxCycles
    /\ result \in {"none", "True", "False"}

\* ------------------------------------------------- the loop without an end
\* LiveSpec runs the same loop for ever.  To keep its states finite the
\* cycle counter stops at MaxCycles and the clock is read relative to the
\* latest arming: `now` restarts at 0 when a ghost order is created and
\* stops one second past the expiry window, beyond which line 179 decides
\* the same whatever the reading.

\* iterations of the while loop started so far, counted up to MaxCycles
LiveCycles == IF cycles < MaxCycles THEN cycles + 1 ELSE cycles

\* seconds the clock advances over one asyncio.sleep(2) of LiveSpec: the
\* event loop resumes main_loop half an expiry window later, so that a
\* ghost order is 900 or 901 seconds old after two sleeps
LiveSleepTimes == {GHOST_EXPIRY \div 2, GHOST_EXPIRY \div 2 + 1}

\* the clock d seconds later, capped one second past the expiry window
LiveClock(t, d) ==
    IF t + d > GHOST_EXPIRY + 1 THEN GHOST_EXPIRY + 1 ELSE t + d

\* mutant of lines 204-207: the exception ends main_loop
LiveSkippedAborts(ev) ==
    /\ cycles' = LiveCycles
    /\ event' = ev
    /\ pc' = "done"
    /\ trade' = None /\ result' = "none" /\ contract' = None
    /\ UNCHANGED <<ghost_order, now, snap, order, attempts, failed_clear, squeeze_held,
                   shutdown>>

\* a cycle that ends in the except clause of line 204, or skips the strategy
LiveSkipped(ev) ==
    /\ cycles' = LiveCycles
    /\ event' = ev
    /\ pc' = "sleep"
    /\ trade' = None /\ result' = "none" /\ contract' = None
    /\ UNCHANGED <<ghost_order, now, snap, order, attempts, failed_clear, squeeze_held,
                   shutdown>>

\* lines 144-146 and 204-207: ticks_history raises
LiveFetchRaises ==
    /\ pc = "fetch"
    /\ LiveSkipped("feed_error")
    /\ UNCHANGED closes

\* line 147: the response holds no 'candles'
LiveFetchNoCandles ==
    /\ pc = "fetch"
    /\ LiveSkipped("no_candles")
    /\ UNCHANGED closes

\* lines 148-150 and 204-205: analyze raises on the candles received
LiveFetchAnalyzeRaises(k) ==
    /\ pc = "fetch"
    /\ Analysis[k].raised
    /\ closes' = k
    /\ LiveSkipped("analysis_error")

\* lines 146-202: candles received and analysed, then the strategy
LiveFetchCandles(k) ==
    /\ pc = "fetch"
    /\ ~Analysis[k].raised
    /\ cycles' = LiveCycles
    /\ closes' = k
    /\ snap' = Analysis[k]
    /\ LET ev == Decide(ghost_order, snap', now)
       IN /\ event' = ev
          /\ now' = (IF ev = "armed" THEN 0 ELSE now)
          /\ ghost_order' = GhostAfter(ghost_order, snap', now', ev)
          /\ order' = (IF ghost_order = None THEN order ELSE ghost_order)
          /\ pc' = PcAfter(ev)
          /\ trade' = TradeCall(ev)
          /\ Observe(snap', ev)
    /\ result' = "none" /\ contract' = None
    /\ UNCHANGED shutdown

\* line 207
LiveSleep(d) ==
    /\ pc = "sleep"
    /\ pc' = "fetch"
    /\ now' = LiveClock(now, d)
    /\ UNCHANGED <<ghost_order, cycles, closes, snap, order, trade, result, contract,
                   event, attempts, failed_clear, squeeze_held, shutdown>>

\* the operator asks for a shutdown; no statement of main_loop reads the
\* request (line 143 is `while True`, with no break and no return)
RequestShutdown ==
    /\ ~shutdown
    /\ shutdown' = TRUE
    /\ UNCHANGED <<ghost_order, now, pc, cycles, closes, snap, order, trade, result,
                   contract, event, attempts, failed_clear, squeeze_held>>

\* a response of the feed that holds 'candles'
LiveCandlesResponse ==
    \/ \E k \in DOMAIN Feed : LiveFetchAnalyzeRaises(k)
    \/ \E k \in DOMAIN Feed : LiveFetchCandles(k)

\* a step of main_loop or of the execute_trade it awaits
LiveProgram ==
    \/ LiveFetchRaises
    \/ LiveFetchNoCandles
    \/ LiveCandlesResponse
    \/ \E d \in LiveSleepTimes : LiveSleep(d)
    \/ \E ok \in BOOLEAN : Authorize(ok)
    \/ \E ok \in BOOLEAN : Proposal(ok)
    \/ \E ok \in BOOLEAN : Buy(ok)
    \/ \E ok \in BOOLEAN : Update(ok)

LiveNext ==
    \/ LiveFetchRaises
    \/ LiveFetchNoCandles
    \/ \E k \in DOMAIN Feed : LiveFetchAnalyzeRaises(k)
    \/ \E k \in DOMAIN Feed : LiveFetchCandles(k)
    \/ \E d \in LiveSleepTimes : LiveSleep(d)
    \/ \E ok \in BOOLEAN : Authorize(ok)
    \/ \E ok \in BOOLEAN : Proposal(ok)
    \/ \E ok \in BOOLEAN : Buy(ok)
    \/ \E ok \in BOOLEAN : Update(ok)
    \/ RequestShutdown

\* every await of the loop returns (the event loop resumes main_loop), and
\* the feed answers with candles again and again
LiveSpec ==
    /\ Init /\ [][LiveNext]_vars
    /\ WF_vars(LiveProgram)
    /\ SF_vars(LiveCandlesResponse)

\* ------------------------------------------------------------------ claims
\* the branches of a cycle whose analyze returned
AnalysedEvents ==
    {"armed", "scanning", "expired", "waiting",
     "buy_confirmed", "buy_fakeout", "sell_confirmed", "sell_fakeout"}

\* main_loop is inside execute_trade
ExecPcs == {"authorize", "proposal", "buy", "update"}

\* this step is a cycle that started in ARMED and whose analyze returned
ArmedCycleStep ==
    /\ pc = "fetch" /\ ghost_order # None
    /\ cycles' = cycles + 1 /\ event' \in AnalysedEvents

\* this step is a cycle that started in IDLE and whose analyze returned
IdleCycleStep ==
    /\ pc = "fetch" /\ ghost_order = None
    /\ cycles' = cycles + 1 /\ event' \in AnalysedEvents

\* C1: a cycle that finds the ghost order older than 900 seconds clears it
\* and calls no execute_trade, whatever the price and the RSI are; so no
\* trade is started on a ghost order that was stale at that cycle's check.
C1_ExpiryPrecedesBreakout ==
    [][(ArmedCycleStep /\ now' - ghost_order[1].created > 900)
        => /\ ghost_order' = None
           /\ trade' = None
           /\ pc' \notin ExecPcs
           /\ attempts' = attempts]_vars

\* C1 witness: a cycle expired an order while the price was past buy_lvl
\* with an RSI above 55.
C1_Witness ==
    /\ event = "expired" /\ ghost_order = None /\ order # None
    /\ now - order[1].created > 900
    /\ FGe(snap.price, order[1].buy_lvl) /\ FGt(snap.rsi, RSI_BUY_MIN)
    /\ trade = None

\* C2: the trade handed to execute_trade carries a stop-loss and a
\* take-profit 3 and 9 times the ATR of the arming away from the entry
\* price, on the side the direction asks for.
C2_TradeIntentFromAtr ==
    trade # None =>
        LET t == trade[1]
            entry == snap.price
            atrAtArming == order[1].atr
        IN /\ "stop_loss" \in DOMAIN t
           /\ IF t.direction = "BUY"
              THEN /\ t.stop_loss = FSub(entry, FMul(SL_ATR_MULT, atrAtArming))
                   /\ t.tp_amount = FAdd(entry, FMul(TP_ATR_MULT, atrAtArming))
              ELSE /\ t.stop_loss = FAdd(entry, FMul(SL_ATR_MULT, atrAtArming))
                   /\ t.tp_amount = FSub(entry, FMul(TP_ATR_MULT, atrAtArming))

\* C3: once execute_trade has returned, True or False, the ghost order is
\* cleared and the loop sleeps; a ghost order sees one execute_trade call,
\* which is running while the ghost order still exists.
C3_ClearedAfterTrade ==
    /\ attempts <= 1
    /\ pc \in ExecPcs => (ghost_order # None /\ attempts = 1 /\ result = "none")
    /\ result # "none" => (ghost_order = None /\ attempts = 1 /\ pc \in {"sleep", "fetch"})

\* C3 witness: execute_trade failed at its last step, the take-profit
\* update, and the ghost order is gone.
C3_Witness ==
    /\ result = "False" /\ contract # None /\ ghost_order = None /\ pc = "sleep"

\* C4: after a failed execute_trade no ghost order is created while the
\* squeeze that armed the cleared one has held in every analysed cycle.
C4_NoRearmFromSameSqueeze ==
    [][~(failed_clear /\ squeeze_held /\ ghost_order = None /\ ghost_order' # None)]_vars

\* C5: a cycle that starts without ghost order and whose analyze returned
\* creates one exactly when z < -2.0 and er > 0.4.
C5_SqueezeIsConjunction ==
    [][IdleCycleStep
        => ((ghost_order' # None)
              <=> (FLt(snap'.z, Num(-2000)) /\ FGt(snap'.er, Num(400))))]_vars

\* C5 witness: z far below -2.0 and er exactly 0.4 left the state IDLE.
C5_Witness ==
    /\ event = "scanning" /\ ghost_order = None
    /\ FLt(snap.z, Z_TRIGGER) /\ snap.er = ER_FILTER

\* C6: a step that starts with a ghost order leaves it as it is or clears it.
C6_ArmedOrderImmutable ==
    [][ghost_order # None => ghost_order' \in {ghost_order, None}]_vars

\* C6 witness: an ARMED cycle saw the squeeze condition true and kept the
\* ghost order it started with.
C6_Witness ==
    /\ event \in {"waiting", "buy_fakeout", "sell_fakeout"}
    /\ FLt(snap.z, Z_TRIGGER) /\ FGt(snap.er, ER_FILTER)
    /\ ghost_order # None /\ ghost_order = order
    /\ now > ghost_order[1].created

\* C7: a non-expired ARMED cycle with the price past a level and the RSI
\* on the wrong side of its threshold calls no execute_trade and leaves the
\* ghost order unchanged.
C7_FakeoutPreservesOrder ==
    [][(/\ ArmedCycleStep
        /\ now' - ghost_order[1].created <= 900
        /\ \/ FGe(snap'.price, ghost_order[1].buy_lvl) /\ FLe(snap'.rsi, Lit(55))
           \/ FLe(snap'.price, ghost_order[1].sell_lvl) /\ FGe(snap'.rsi, Lit(45)))
        => /\ ghost_order' = ghost_order
           /\ trade' = None
           /\ pc' = "sleep"
           /\ attempts' = attempts]_vars

\* C7 witness: the price is past buy_lvl, the RSI is not above 55, and the
\* ghost order of the start of the cycle is still there.
C7_Witness ==
    /\ event = "buy_fakeout" /\ pc = "sleep"
    /\ ghost_order # None /\ ghost_order = order
    /\ FGe(snap.price, ghost_order[1].buy_lvl) /\ FLe(snap.rsi, RSI_BUY_MIN)
    /\ trade = None

\* C8: in a non-expired ARMED cycle execute_trade is called with BUY iff
\* price >= buy_lvl and rsi > 55, with SELL iff price < buy_lvl and
\* price <= sell_lvl and rsi < 45, and not at all otherwise.
C8_BreakoutDecision ==
    [][(ArmedCycleStep /\ now' - ghost_order[1].created <= 900)
        => LET o == ghost_order[1]
               buy == FGe(snap'.price, o.buy_lvl) /\ FGt(snap'.rsi, Lit(55))
               sell == /\ FLt(snap'.price, o.buy_lvl)
                       /\ FLe(snap'.price, o.sell_lvl)
                       /\ FLt(snap'.rsi, Lit(45))
           IN /\ buy <=> (trade' # None /\ trade'[1].direction = "BUY")
              /\ sell <=> (trade' # None /\ trade'[1].direction = "SELL")
              /\ (trade' # None) <=> (pc' = "authorize")
              /\ (~buy /\ ~sell) => trade' = None]_vars

\* C8 witness: a SELL call under way, the price below sell_lvl, RSI below 45.
C8_Witness ==
    /\ pc = "authorize" /\ trade # None /\ trade[1].direction = "SELL"
    /\ FLe(snap.price, order[1].sell_lvl) /\ FLt(snap.rsi, RSI_SELL_MAX)

\* C9: the ghost order an IDLE cycle creates holds price + 0.5*atr,
\* price - 0.5*atr, atr and the current time, price and atr being those
\* analyze returned in that cycle.
C9_GhostOrderFields ==
    (event = "armed" /\ pc = "sleep")
        => /\ ghost_order # None
           /\ ghost_order[1].buy_lvl = FAdd(snap.price, FMul(snap.atr, Num(500)))
           /\ ghost_order[1].sell_lvl = FSub(snap.price, FMul(snap.atr, Num(500)))
           /\ ghost_order[1].atr = snap.atr
           /\ ghost_order[1].created = now
           /\ snap = Analysis[closes]

\* C9 witness: a ghost order created after the clock has advanced, with a
\* positive ATR.
C9_Witness ==
    /\ event = "armed" /\ pc = "sleep" /\ ghost_order # None
    /\ now > 0 /\ FGt(snap.atr, Num(0))

\* C10: on candles fewer than an indicator's window analyze raises nothing
\* and returns 0 for that indicator (a number for the RSI), never NaN.
C10_InsufficientDataNeutral ==
    /\ event # "analysis_error"
    /\ (event \in AnalysedEvents /\ closes # 0) =>
          LET n == Len(Closes(closes))
          IN /\ n < ATR_WINDOW => snap.atr = Num(0)
             /\ n < LOOKBACK => snap.z = Num(0)
             /\ n < ER_LENGTH => snap.er = Num(0)
             /\ n < RSI_WINDOW => IsNum(snap.rsi)

\* the efficiency ratio with the displacement and the path over the same
\* ten bars, for a series of at least 11 closes
ErSameBars(close) ==
    LET n == Len(close)
        net == FAbs(FSub(close[n], close[n - ER_LENGTH]))
        path == Num(SumV(sabs(diff(close)), n - ER_LENGTH + 1, n))
    IN IF path.v = 0 THEN Num(0) ELSE FDiv(net, path)

ErClaimed ==
    [k \in DOMAIN Feed |->
        IF Len(Closes(k)) > ER_LENGTH THEN ErSameBars(Closes(k)) ELSE Num(0)]

\* C11: an ARMED cycle whose average loss over the trailing 14 bars is 0
\* confirms no breakout and calls no execute_trade, wherever the price is.
C11_ZeroLossIsNeutral ==
    [][(ArmedCycleStep /\ AvgLoss[closes'] = Num(0))
        => /\ trade' = None
           /\ pc' \notin ExecPcs
           /\ event' \notin {"buy_confirmed", "sell_confirmed"}]_vars

\* C12: on at least 11 closes analyze returns the efficiency ratio
\* |price[last] - price[last-10]| / (sum of |price[i] - price[i-1]| over the
\* trailing 10 bars), and 0 when that sum is 0.
C12_EfficiencyRatioFormula ==
    (event \in AnalysedEvents /\ closes # 0 /\ Feed[closes][1] > ER_LENGTH)
        => snap.er = ErClaimed[closes]

\* this step is a cycle whose ticks_history call raised or whose response
\* held no 'candles'
FeedFailureStep ==
    /\ pc = "fetch" /\ cycles' = cycles + 1
    /\ event' \in {"feed_error", "no_candles"}

\* C14: a cycle whose fetch raises or whose response has no 'candles' leaves
\* the ghost order as it was, starts no trade, and goes on to the sleep that
\* precedes the next cycle.
C14_FeedFailureSkipsCycle ==
    [][FeedFailureStep
        => /\ ghost_order' = ghost_order
           /\ trade' = None /\ contract' = None
           /\ attempts' = attempts
           /\ pc' = "sleep"]_vars

\* C14 witness: the feed failed in a cycle that found a ghost order older
\* than 900 seconds, and the ghost order is still there.
C14_Witness ==
    /\ event \in {"feed_error", "no_candles"} /\ pc = "sleep"
    /\ ghost_order # None /\ now - ghost_order[1].created > 900

\* C16: whatever a cycle does, the loop sleeps before the next fetch: no
\* cycle ends where the next ticks_history call starts.
C16_SleepBetweenFetches ==
    [][(pc = "fetch" /\ cycles' = cycles + 1) => pc' # "fetch"]_vars

\* C17: when execute_trade has returned False no contract was bought in
\* that call, and a contract that was bought has its take-profit attached
\* and is reported as a success.
C17_FailureMeansNoContract ==
    /\ result = "False" => contract = None
    /\ (contract # None /\ pc \notin ExecPcs)
          => (result = "True" /\ contract[1].limit_order # None)

\* C19: an execute_trade call starts only in a cycle that began with a ghost
\* order, which that cycle did not create, and it is the first call since
\* that ghost order was created.
C19_TradeFromArmedGhost ==
    [][(trade = None /\ trade' # None)
        => /\ ghost_order # None
           /\ ghost_order' = ghost_order
           /\ event' # "armed"
           /\ attempts = 0 /\ attempts' = 1]_vars

\* C19 witness: a BUY call under way for a ghost order armed in an earlier
\* cycle, after the clock has advanced.
C19_Witness ==
    /\ pc \in ExecPcs /\ trade # None /\ trade[1].direction = "BUY"
    /\ ghost_order # None /\ ghost_order = order
    /\ now > ghost_order[1].created /\ attempts = 1

\* C20: a ghost order holds a strictly positive atr and sell_lvl < buy_lvl,
\* so the price of a cycle is never past both levels at once.
C20_LevelOrdering ==
    ghost_order # None
        => LET o == ghost_order[1]
           IN /\ FGt(o.atr, Num(0))
              /\ FLt(o.sell_lvl, o.buy_lvl)
              /\ ~(FGe(snap.price, o.buy_lvl) /\ FLe(snap.price, o.sell_lvl))

\* C20 witness: a ghost order armed in a falling market, the price now at
\* or below sell_lvl and not past buy_lvl.
C20_Witness ==
    /\ ghost_order # None /\ event = "sell_fakeout"
    /\ FLe(snap.price, ghost_order[1].sell_lvl)
    /\ ~FGe(snap.price, ghost_order[1].buy_lvl)

\* the cycles that ended in a failure of the fetch or of the analysis
CycleFailures == {"feed_error", "no_candles", "analysis_error"}

\* C13: after a cycle that failed main_loop is still running and comes back
\* to the ticks_history call of a next cycle.
C13_FailureDoesNotAbort ==
    (event \in CycleFailures /\ pc # "fetch") ~> (pc = "fetch")

\* C13 witness: analyze raised in the latest cycle and main_loop is at the
\* fetch of the next one.
C13_Witness ==
    /\ event = "analysis_error" /\ pc = "fetch" /\ cycles > 0

\* C15: once a shutdown has been requested main_loop starts no new cycle
\* after its sleep.
C15_ShutdownStopsCycles ==
    [][(shutdown /\ pc = "sleep") => pc' # "fetch"]_vars

\* C18: under the fairness of LiveSpec every ghost order is eventually
\* cleared.
C18_GhostEventuallyCleared ==
    (ghost_order # None) ~> (ghost_order = None)

====
